---- MODULE Spec2Model ----
(***************************************************************************)
(* Model of HARK/ConsumptionSaving/ConsLaborModel.py: the one-period EGM   *)
(* solver solveConsLaborIntMarg, the terminal solver                       *)
(* updateSolutionTerminal and the ConsumerLaborSolution record.            *)
(*                                                                         *)
(* Numbers.  numpy float64 values are modelled as exact extended           *)
(* rationals <<n, d>>: d > 0 and gcd(n, d) = 1 for a finite value,         *)
(* <<1, 0>> for +inf, <<-1, 0>> for -inf and <<0, 0>> for NaN, with the    *)
(* IEEE rules for inf and NaN (x/0 = inf, 0/0 = NaN, 0*inf = NaN, a        *)
(* negative base to a fractional power = NaN, every comparison with NaN    *)
(* false).  Floating-point rounding and the sign of zero are not           *)
(* modelled.  A power with a fractional exponent is computed exactly, as   *)
(* the root of a perfect power; TLC stops with an error if the model ever  *)
(* takes the root of a number that is not a perfect power, so every        *)
(* reported result rests on exact arithmetic only.                         *)
(***************************************************************************)
EXTENDS Integers, Sequences, FiniteSets, TLC

----------------------------------------------------------------------------
(* Extended rational arithmetic (numpy float64 semantics, exact).          *)

Abs(n) == IF n < 0 THEN -n ELSE n

Sign(n) == IF n > 0 THEN 1 ELSE IF n < 0 THEN -1 ELSE 0

RECURSIVE GCD(_, _)
GCD(a, b) == IF b = 0 THEN a ELSE GCD(b, a % b)

Rat(n, d) ==
    IF d = 0 THEN <<Sign(n), 0>>
    ELSE LET g == GCD(Abs(n), Abs(d))
             s == IF d < 0 THEN -1 ELSE 1
         IN  <<(s * n) \div g, (s * d) \div g>>

Num(n) == <<n, 1>>

Zero == <<0, 1>>

One == <<1, 1>>

Inf == <<1, 0>>

NaN == <<0, 0>>

IsNaN(a) == a = NaN

IsFinite(a) == a[2] # 0

Neg(a) == <<-a[1], a[2]>>

Add(a, b) ==
    IF IsNaN(a) \/ IsNaN(b) THEN NaN
    ELSE IF ~IsFinite(a) THEN (IF ~IsFinite(b) /\ b # a THEN NaN ELSE a)
    ELSE IF ~IsFinite(b) THEN b
    ELSE LET g == GCD(a[2], b[2])
         IN  Rat(a[1] * (b[2] \div g) + b[1] * (a[2] \div g), (a[2] \div g) * b[2])

Sub(a, b) == Add(a, Neg(b))

Mul(a, b) ==
    IF ~IsFinite(a) \/ ~IsFinite(b) THEN Rat(Sign(a[1]) * Sign(b[1]), a[2] * b[2])
    ELSE LET g1 == GCD(Abs(a[1]), b[2])
             g2 == GCD(Abs(b[1]), a[2])
         IN  Rat((a[1] \div g1) * (b[1] \div g2), (a[2] \div g2) * (b[2] \div g1))

Inv(a) ==
    IF a[1] > 0 THEN <<a[2], a[1]>>
    ELSE IF a[1] < 0 THEN <<-a[2], -a[1]>>
    ELSE IF a[2] = 0 THEN NaN ELSE Inf

Div(a, b) == Mul(a, Inv(b))

Lt(a, b) ==
    /\ ~IsNaN(a)
    /\ ~IsNaN(b)
    /\ IF ~IsFinite(a) /\ ~IsFinite(b) THEN a[1] < b[1]
       ELSE IF ~IsFinite(a) \/ ~IsFinite(b) THEN a[1] * b[2] < b[1] * a[2]
       ELSE LET g == GCD(a[2], b[2])
            IN  a[1] * (b[2] \div g) < b[1] * (a[2] \div g)

Leq(a, b) == ~IsNaN(a) /\ ~IsNaN(b) /\ ~Lt(b, a)

Gt(a, b) == Lt(b, a)

\* np.minimum: NaN propagates.
Minimum(a, b) == IF IsNaN(a) \/ IsNaN(b) THEN NaN ELSE IF Lt(b, a) THEN b ELSE a

RECURSIVE IPow(_, _)
IPow(n, k) == IF k = 0 THEN 1 ELSE n * IPow(n, k - 1)

\* r ** q <= n, for naturals, without forming r ** q.
RECURSIVE PowLeq(_, _, _)
PowLeq(r, q, n) ==
    IF q = 0 THEN 1 <= n
    ELSE IF r = 0 THEN TRUE
    ELSE PowLeq(r, q - 1, n \div r)

\* The largest r in lo..hi with r ** q <= n, by bisection.
RECURSIVE RootFloor(_, _, _, _)
RootFloor(n, q, lo, hi) ==
    IF lo >= hi THEN lo
    ELSE LET mid == (lo + hi + 1) \div 2
         IN  IF PowLeq(mid, q, n) THEN RootFloor(n, q, mid, hi)
             ELSE RootFloor(n, q, lo, mid - 1)

\* The exact q-th root of a natural number (it must be a perfect q-th power).
IRoot(n, q) ==
    IF q = 1 THEN n ELSE CHOOSE r \in {RootFloor(n, q, 0, n)} : IPow(r, q) = n

\* a ** e for an extended rational a and a finite rational exponent e = <<p, q>>.
Pow(a, e) ==
    LET p == e[1]
        q == e[2]
    IN  IF p = 0 THEN One
        ELSE IF IsNaN(a) THEN NaN
        ELSE IF a[1] = 0 THEN (IF p > 0 THEN Zero ELSE Inf)
        ELSE IF a[2] = 0 THEN
            IF a[1] > 0 THEN (IF p > 0 THEN Inf ELSE Zero)
            ELSE IF q # 1 THEN (IF p > 0 THEN Inf ELSE Zero)
            ELSE IF p < 0 THEN Zero
            ELSE IF p % 2 = 1 THEN <<-1, 0>> ELSE Inf
        ELSE IF a[1] < 0 /\ q # 1 THEN NaN
        ELSE LET rn == Sign(a[1]) * IRoot(Abs(a[1]), q)
                 rd == IRoot(a[2], q)
                 k  == Abs(p)
             IN  IF p > 0 THEN Rat(IPow(rn, k), IPow(rd, k))
                 ELSE Rat(IPow(rd, k), IPow(rn, k))

----------------------------------------------------------------------------
(* Arrays: a vector is a sequence of numbers, a matrix a sequence of rows. *)

Range(s) == {s[i] : i \in DOMAIN s}

RECURSIVE SumSeq(_)
SumSeq(s) == IF s = <<>> THEN Zero ELSE Add(Head(s), SumSeq(Tail(s)))

Col(m, j) == [i \in DOMAIN m |-> m[i][j]]

Max2(a, b) == IF a > b THEN a ELSE b

Min2(a, b) == IF a < b THEN a ELSE b

----------------------------------------------------------------------------
(* HARK.utilities: the CRRA marginal utility and its inverse.              *)

\* CRRAutilityP(c, gam) = c ** -gam
CRRAutilityP(c, gam) == Pow(c, Neg(gam))

\* CRRAutilityP_inv(uP, gam) = uP ** (-1.0 / gam)
CRRAutilityP_inv(uP, gam) == Pow(uP, Neg(Inv(gam)))

----------------------------------------------------------------------------
(* HARK.interpolation: the function objects a Solution is made of.  A      *)
(* function object is a record tagged with its class.                      *)

\* np.searchsorted(xs, x): the number of entries of the ordered xs below x.
SearchSorted(xs, x) == Cardinality({k \in DOMAIN xs : Lt(xs[k], x)})

\* The segment (its upper index, counted from 0) used to evaluate at v.
SegmentPos(xs, v) == Max2(Min2(SearchSorted(xs, v), Len(xs) - 1), 1)

\* (1 - alpha) * lo + alpha * hi
Blend(alpha, lo, hi) == Add(Mul(Sub(One, alpha), lo), Mul(alpha, hi))

LinearInterp(xs, ys) == [type |-> "LinearInterp", x_list |-> xs, y_list |-> ys]

LinearInterpEval(f, x) ==
    LET i     == SegmentPos(f.x_list, x)
        alpha == Div(Sub(x, f.x_list[i]), Sub(f.x_list[i + 1], f.x_list[i]))
    IN  Blend(alpha, f.y_list[i], f.y_list[i + 1])

BilinearInterp(fv, xs, ys) ==
    [type |-> "BilinearInterp", f_values |-> fv, x_list |-> xs, y_list |-> ys]

BilinearInterpEval(f, x, y) ==
    LET i     == SegmentPos(f.x_list, x)
        j     == SegmentPos(f.y_list, y)
        alpha == Div(Sub(x, f.x_list[i]), Sub(f.x_list[i + 1], f.x_list[i]))
        beta  == Div(Sub(y, f.y_list[j]), Sub(f.y_list[j + 1], f.y_list[j]))
    IN  Add(Add(Mul(Mul(Sub(One, alpha), Sub(One, beta)), f.f_values[i][j]),
                Mul(Mul(Sub(One, alpha), beta), f.f_values[i][j + 1])),
            Add(Mul(Mul(alpha, Sub(One, beta)), f.f_values[i + 1][j]),
                Mul(Mul(alpha, beta), f.f_values[i + 1][j + 1])))

LinearInterpOnInterp1D(fs, ys) ==
    [type |-> "LinearInterpOnInterp1D", xInterpolators |-> fs, y_list |-> ys]

LinearInterpOnInterp1DEval(f, x, y) ==
    LET j     == SegmentPos(f.y_list, y)
        alpha == Div(Sub(y, f.y_list[j]), Sub(f.y_list[j + 1], f.y_list[j]))
    IN  Blend(alpha, LinearInterpEval(f.xInterpolators[j], x),
                     LinearInterpEval(f.xInterpolators[j + 1], x))

ConstantFunction(v) == [type |-> "ConstantFunction", value |-> v]

\* A function of one argument: the minimum-balance function of a Solution.
Eval1D(f, y) ==
    IF f.type = "ConstantFunction" THEN f.value ELSE LinearInterpEval(f, y)

VariableLowerBoundFunc2D(f, lb) ==
    [type |-> "VariableLowerBoundFunc2D", func |-> f, lowerBound |-> lb]

\* f(x - lowerBound(y), y); invalid below the bound.
VariableLowerBoundFunc2DEval(f, x, y) ==
    LET xShift == Eval1D(f.lowerBound, y)
    IN  IF Lt(x, xShift) THEN NaN
        ELSE LinearInterpOnInterp1DEval(f.func, Sub(x, xShift), y)

MargValueFunc2D(f, gam) == [type |-> "MargValueFunc2D", cFunc |-> f, CRRA |-> gam]

\* A function of two arguments (b, theta) that is not a composition.
EvalBase2D(f, x, y) ==
    IF f.type = "BilinearInterp" THEN BilinearInterpEval(f, x, y)
    ELSE VariableLowerBoundFunc2DEval(f, x, y)

\* Any function of (b, theta) held by a Solution.
Eval2D(f, x, y) ==
    IF f.type = "MargValueFunc2D" THEN CRRAutilityP(EvalBase2D(f.cFunc, x, y), f.CRRA)
    ELSE EvalBase2D(f, x, y)

\* MargValueFunc(cFunc, CRRA)(m) = CRRAutilityP(cFunc(m), gam = CRRA)
MargValueFuncEval(f, gam, x) == CRRAutilityP(LinearInterpEval(f, x), gam)

----------------------------------------------------------------------------
(* ConsumerLaborSolution and the one-period solver.                        *)

\* The value None of Python.
None == [type |-> "None"]

\* ConsumerLaborSolution.__init__: an attribute is set only if it is given.
ConsumerLaborSolution(cFunc, LbrFunc, vFunc, vPfunc, bNrmMin) ==
    [type |-> "ConsumerLaborSolution", cFunc |-> cFunc, LbrFunc |-> LbrFunc,
     vFunc |-> vFunc, vPfunc |-> vPfunc, bNrmMin |-> bNrmMin]

IsSolution(s) == s.type = "ConsumerLaborSolution"

\* A row of hundreds in place of the row of zeros.
Hundreds(n) == [j \in 1..n |-> Num(100)]

\* np.zeros((1, n))
Zeros(n) == [j \in 1..n |-> Zero]

\* The rejection tests with a strict comparison of CRRA.
SolverGuardsStrict(a) ==
    LET frac == Div(One, Add(One, a.LbrCost))
    IN  IF Lt(a.CRRA, Mul(frac, a.LbrCost)) THEN "exit"
        ELSE IF a.BoroCnstArt # None THEN "None"
        ELSE IF a.vFuncBool \/ (a.CubicBool = TRUE) THEN "None"
        ELSE "run"

\* The rejection tests without the test of CubicBool.
SolverGuardsNoCubic(a) ==
    LET frac == Div(One, Add(One, a.LbrCost))
    IN  IF Leq(a.CRRA, Mul(frac, a.LbrCost)) THEN "exit"
        ELSE IF a.BoroCnstArt # None THEN "None"
        ELSE IF a.vFuncBool THEN "None"
        ELSE "run"

\* The rejection tests of solveConsLaborIntMarg, in the order of the code:
\* "exit" for sys.exit(), "None" for return None, "run" when the solver goes on.
SolverGuards(a) ==
    LET frac == Div(One, Add(One, a.LbrCost))
    IN  IF Leq(a.CRRA, Mul(frac, a.LbrCost)) THEN "exit"
        ELSE IF a.BoroCnstArt # None THEN "None"
        ELSE IF a.vFuncBool \/ (a.CubicBool = TRUE) THEN "None"
        ELSE "run"

\* v bound to a value and handed to F: a local variable of the code.
Bind(v, F(_)) == CHOOSE r \in {F(x) : x \in {v}} : TRUE

\* Next period's marginal value taken as the marginal utility of next
\* period's consumption function, in place of its marginal-value function.
SolverExpectationOfConsumption(a) ==
    LET cFunc_next == a.solution_next.cFunc
        TranShkPrbs == a.TranShkDstn[1]
        TranShkVals == a.TranShkDstn[2]
        TranShkCount == Len(TranShkPrbs)
        aXtraCount == Len(a.aXtraGrid)
        bNext(i, k) == Mul(a.Rfree, a.aXtraGrid[i])
        vPNext(i, k) == CRRAutilityP(Eval2D(cFunc_next, bNext(i, k), TranShkVals[k]),
                                     a.CRRA)
        vPbarNext(i) == SumSeq([k \in 1..TranShkCount |->
                            Mul(vPNext(i, k), TranShkPrbs[k])])
        vPbarNvrsNext == [i \in 1..aXtraCount |->
                            CRRAutilityP_inv(vPbarNext(i), a.CRRA)]
    IN  [vPbarNvrsFuncNext |->
            LinearInterp(<<Zero>> \o [i \in 1..aXtraCount |-> bNext(i, 1)],
                         <<Zero>> \o vPbarNvrsNext)]

\* Lines 145-166: the transitory shock integrated out of next period's
\* marginal value; the interpolant of its pseudo-inverse over R * a.
SolverExpectation(a) ==
    LET vPfunc_next == a.solution_next.vPfunc
        TranShkPrbs == a.TranShkDstn[1]
        TranShkVals == a.TranShkDstn[2]
        TranShkCount == Len(TranShkPrbs)
        aXtraCount == Len(a.aXtraGrid)
        bNext(i, k) == Mul(a.Rfree, a.aXtraGrid[i])
        vPNext(i, k) == Eval2D(vPfunc_next, bNext(i, k), TranShkVals[k])
        vPbarNext(i) == SumSeq([k \in 1..TranShkCount |->
                            Mul(vPNext(i, k), TranShkPrbs[k])])
        vPbarNvrsNext == [i \in 1..aXtraCount |->
                            CRRAutilityP_inv(vPbarNext(i), a.CRRA)]
    IN  [vPbarNvrsFuncNext |->
            LinearInterp(<<Zero>> \o [i \in 1..aXtraCount |-> bNext(i, 1)],
                         <<Zero>> \o vPbarNvrsNext)]

\* Lines 169-179: the end-of-period marginal value of assets and the scale
\* factor of each transitory-shock node.
SolverEndOfPrd(a, L) ==
    LET frac == Div(One, Add(One, a.LbrCost))
        PermShkPrbs == a.PermShkDstn[1]
        PermShkVals == a.PermShkDstn[2]
        PermShkCount == Len(PermShkPrbs)
        aXtraCount == Len(a.aXtraGrid)
        vPbarFuncNext(x) == MargValueFuncEval(L.vPbarNvrsFuncNext, a.CRRA, x)
        bNextPerm(i, k) == Mul(Div(a.Rfree, Mul(a.PermGroFac, PermShkVals[k])),
                               a.aXtraGrid[i])
    IN  [EndOfPrdvP |-> [i \in 1..aXtraCount |->
            Mul(Mul(Mul(a.DiscFac, a.Rfree), a.LivPrb),
                SumSeq([k \in 1..PermShkCount |->
                    Mul(Mul(Pow(Mul(a.PermGroFac, PermShkVals[k]), Neg(a.CRRA)),
                            vPbarFuncNext(bNextPerm(i, k))),
                        PermShkPrbs[k])]))],
         TranShkScaleFac |-> [j \in 1..Len(a.TranShkGrid) |->
            Mul(Mul(frac,
                    Pow(Mul(a.WageRte, a.TranShkGrid[j]), Mul(a.LbrCost, frac))),
                Add(Pow(a.LbrCost, Neg(Mul(a.LbrCost, frac))),
                    Pow(a.LbrCost, frac)))]]

\* Line 182: the effective consumption x at every (a, theta).
SolverEffCons(a, L) ==
    LET frac == Div(One, Add(One, a.LbrCost))
    IN  [xNowArray |-> [i \in 1..Len(a.aXtraGrid) |->
            [j \in 1..Len(a.TranShkGrid) |->
                Pow(Mul(L.EndOfPrdvP[i], L.TranShkScaleFac[j]),
                    Neg(Inv(Sub(a.CRRA, Mul(a.LbrCost, frac)))))]]]

\* Lines 186-188: consumption and leisure from the first-order condition.
SolverFOC(a, L) ==
    LET frac == Div(One, Add(One, a.LbrCost))
        xNowPowered(i, j) == Pow(L.xNowArray[i][j], frac)
    IN  [cNrmFOC |-> [i \in 1..Len(a.aXtraGrid) |->
            [j \in 1..Len(a.TranShkGrid) |->
                Mul(Pow(Div(Mul(a.WageRte, a.TranShkGrid[j]), a.LbrCost),
                        Mul(a.LbrCost, frac)),
                    xNowPowered(i, j))]],
         LsrFOC |-> [i \in 1..Len(a.aXtraGrid) |->
            [j \in 1..Len(a.TranShkGrid) |->
                Mul(Pow(Div(a.LbrCost, Mul(a.WageRte, a.TranShkGrid[j])), frac),
                    xNowPowered(i, j))]]]

\* Lines 189-190: cNrmNow[:,0] = uPinv(EndOfPrdvP_temp); LsrNow[:,0] = 1.0
SolverFirstColumn(a, L) ==
    [cNrmCol0 |-> [i \in 1..Len(a.aXtraGrid) |->
        [j \in 1..Len(a.TranShkGrid) |->
            IF j = 1 THEN CRRAutilityP_inv(L.EndOfPrdvP[i], a.CRRA)
            ELSE L.cNrmFOC[i][j]]],
     LsrCol0 |-> [i \in 1..Len(a.aXtraGrid) |->
        [j \in 1..Len(a.TranShkGrid) |->
            IF j = 1 THEN One ELSE L.LsrFOC[i][j]]]]

\* Lines 194-197: the labor constraint, leisure <= 1.
SolverLaborConstraint(a, L) ==
    LET violates(i, j) == Gt(L.LsrCol0[i][j], One)
    IN  [violates_labor_constraint |-> [i \in 1..Len(a.aXtraGrid) |->
            [j \in 1..Len(a.TranShkGrid) |-> violates(i, j)]],
         cNrmNow |-> [i \in 1..Len(a.aXtraGrid) |->
            [j \in 1..Len(a.TranShkGrid) |->
                IF violates(i, j) THEN CRRAutilityP_inv(L.EndOfPrdvP[i], a.CRRA)
                ELSE L.cNrmCol0[i][j]]],
         LsrNow |-> [i \in 1..Len(a.aXtraGrid) |->
            [j \in 1..Len(a.TranShkGrid) |->
                IF violates(i, j) THEN One ELSE L.LsrCol0[i][j]]]]

\* Lines 200-208: the endogenous bank balances and the arrays handed to the
\* interpolants, each with its prepended row.
SolverGridArrays(a, L) ==
    LET aXtraCount == Len(a.aXtraGrid)
        nGrid == Len(a.TranShkGrid)
        bNrmNow(i, j) ==
            Add(Add(Sub(a.aXtraGrid[i], Mul(a.WageRte, a.TranShkGrid[j])),
                    L.cNrmNow[i][j]),
                Mul(Mul(a.WageRte, a.TranShkGrid[j]), L.LsrNow[i][j]))
        bNowExtra == [j \in 1..nGrid |-> Mul(Neg(a.WageRte), a.TranShkGrid[j])]
        LsrNowArray == <<[j \in 1..nGrid |-> IF j = 1 THEN One ELSE Zero]>>
                       \o L.LsrNow
    IN  [bNowArray |-> <<bNowExtra>> \o
            [i \in 1..aXtraCount |-> [j \in 1..nGrid |-> bNrmNow(i, j)]],
         cNowArray |-> <<Zeros(nGrid)>> \o L.cNrmNow,
         LsrNowArray |-> LsrNowArray,
         LbrNowArray |-> [i \in 1..(aXtraCount + 1) |->
            [j \in 1..nGrid |-> Sub(One, LsrNowArray[i][j])]]]

\* The end-of-period marginal value itself in place of its pseudo-inverse.
SolverPseudoInverseRaw(a, L) ==
    [vPnvrsNowArray |-> <<Zeros(Len(a.TranShkGrid))>> \o
        [i \in 1..Len(a.aXtraGrid) |->
            [k \in 1..Len(a.TranShkDstn[1]) |-> L.EndOfPrdvP[i]]]]

\* Lines 212-213: the pseudo-inverse marginal value, uPinv of the end-of-period
\* marginal value tiled over the shock values, under a row of zeros.
SolverPseudoInverse(a, L) ==
    [vPnvrsNowArray |-> <<Zeros(Len(a.TranShkGrid))>> \o
        [i \in 1..Len(a.aXtraGrid) |->
            [k \in 1..Len(a.TranShkDstn[1]) |->
                CRRAutilityP_inv(L.EndOfPrdvP[i], a.CRRA)]]]

\* The body of solveConsLaborIntMarg after the rejection tests, lines 144-213:
\* the local arrays of the code.
SolverArrays(a) ==
    Bind(SolverExpectation(a), LAMBDA L1 :
    Bind(L1 @@ SolverEndOfPrd(a, L1), LAMBDA L2 :
    Bind(L2 @@ SolverEffCons(a, L2), LAMBDA L3 :
    Bind(L3 @@ SolverFOC(a, L3), LAMBDA L4 :
    Bind(L4 @@ SolverFirstColumn(a, L4), LAMBDA L5 :
    Bind(L5 @@ SolverLaborConstraint(a, L5), LAMBDA L6 :
         L6 @@ SolverGridArrays(a, L6) @@ SolverPseudoInverse(a, L6)))))))

\* The interpolants of each node built on the balances themselves, without
\* the shift by the node's minimum balance.
SolverSolutionUnshifted(a, L) ==
    LET nGrid == Len(a.TranShkGrid)
        bNrmMinNow == LinearInterp(a.TranShkGrid, L.bNowArray[1])
        cFuncNow_list == [j \in 1..nGrid |->
                    LinearInterp(Col(L.bNowArray, j), Col(L.cNowArray, j))]
        LbrFuncNow_list == [j \in 1..nGrid |->
                    LinearInterp(Col(L.bNowArray, j), Col(L.LbrNowArray, j))]
        vPnvrsFuncNow_list == [j \in 1..nGrid |->
                    LinearInterp(Col(L.bNowArray, j), Col(L.vPnvrsNowArray, j))]
        cFuncNow == VariableLowerBoundFunc2D(
                    LinearInterpOnInterp1D(cFuncNow_list, a.TranShkGrid), bNrmMinNow)
        LbrFuncNow == VariableLowerBoundFunc2D(
                    LinearInterpOnInterp1D(LbrFuncNow_list, a.TranShkGrid), bNrmMinNow)
        vPnvrsFuncNow == VariableLowerBoundFunc2D(
                    LinearInterpOnInterp1D(vPnvrsFuncNow_list, a.TranShkGrid), bNrmMinNow)
        vPfuncNow == MargValueFunc2D(vPnvrsFuncNow, a.CRRA)
    IN  ConsumerLaborSolution(cFuncNow, LbrFuncNow, None, vPfuncNow, bNrmMinNow)

\* Lines 217-250: the Solution built from the arrays L.
SolverSolution(a, L) ==
    LET aXtraCount == Len(a.aXtraGrid)
        nGrid == Len(a.TranShkGrid)
        bNrmMinNow == LinearInterp(a.TranShkGrid, L.bNowArray[1])
        bNrmNow_temp(j) == [i \in 1..(aXtraCount + 1) |->
                    Sub(L.bNowArray[i][j], L.bNowArray[1][j])]
        cFuncNow_list == [j \in 1..nGrid |->
                    LinearInterp(bNrmNow_temp(j), Col(L.cNowArray, j))]
        LbrFuncNow_list == [j \in 1..nGrid |->
                    LinearInterp(bNrmNow_temp(j), Col(L.LbrNowArray, j))]
        vPnvrsFuncNow_list == [j \in 1..nGrid |->
                    LinearInterp(bNrmNow_temp(j), Col(L.vPnvrsNowArray, j))]
        cFuncNow == VariableLowerBoundFunc2D(
                    LinearInterpOnInterp1D(cFuncNow_list, a.TranShkGrid), bNrmMinNow)
        LbrFuncNow == VariableLowerBoundFunc2D(
                    LinearInterpOnInterp1D(LbrFuncNow_list, a.TranShkGrid), bNrmMinNow)
        vPnvrsFuncNow == VariableLowerBoundFunc2D(
                    LinearInterpOnInterp1D(vPnvrsFuncNow_list, a.TranShkGrid), bNrmMinNow)
        vPfuncNow == MargValueFunc2D(vPnvrsFuncNow, a.CRRA)
    IN  ConsumerLaborSolution(cFuncNow, LbrFuncNow, None, vPfuncNow, bNrmMinNow)

\* solveConsLaborIntMarg: result is "exit" (sys.exit), "None" (return None),
\* "error" (an exception: solution_next has no vPfunc, or the shock
\* distribution and the node grid differ in size) or "solution".
solveConsLaborIntMarg(a) ==
    IF SolverGuards(a) # "run" THEN [result |-> SolverGuards(a), args |-> a]
    ELSE IF ~IsSolution(a.solution_next)
            \/ Len(a.TranShkDstn[1]) # Len(a.TranShkGrid)
    THEN [result |-> "error", args |-> a]
    ELSE Bind(SolverArrays(a), LAMBDA L :
                [result |-> "solution", args |-> a, locals |-> L,
                 solution |-> SolverSolution(a, L)])

----------------------------------------------------------------------------
(* LaborIntMargConsumerType.updateSolutionTerminal.                        *)

\* The arrays built from the chosen period's TranShkGrid, LbrCost and WageRte,
\* the agent's aXtraGrid and CRRA (lines 409-435).
TerminalArrays(Grid, Cost, Wage, aXtra, gam) ==
    LET bNrmGrid == <<Zero>> \o aXtra
        bNrmCount == Len(bNrmGrid)
        nGrid == Len(Grid)
        LsrMin(i, j) ==
            Minimum(Mul(Div(Cost, Add(One, Cost)),
                        Add(Div(bNrmGrid[i], Mul(Wage, Grid[j])), One)),
                    One)
        LsrTerm(i, j) == IF i = 1 /\ j = 1 THEN One ELSE LsrMin(i, j)
        LbrTerm(i, j) == Sub(One, LsrTerm(i, j))
        mNrmTerm(i, j) == Add(bNrmGrid[i], Mul(Mul(LbrTerm(i, j), Wage), Grid[j]))
        cNrmTerm(i, j) == mNrmTerm(i, j)
        xEffTerm(i, j) == Mul(Pow(LsrTerm(i, j), Cost), cNrmTerm(i, j))
        vPterm(i, j) == Mul(Pow(LsrTerm(i, j), Cost),
                            CRRAutilityP(xEffTerm(i, j), gam))
        vPnvrsTerm(i, j) == CRRAutilityP_inv(vPterm(i, j), gam)
        Array(F(_, _)) == [i \in 1..bNrmCount |-> [j \in 1..nGrid |-> F(i, j)]]
    IN  [TranShkGrid |-> Grid, LbrCost |-> Cost, WageRte |-> Wage, CRRA |-> gam,
         bNrmGrid |-> bNrmGrid,
         LsrTerm |-> Array(LsrTerm),
         LbrTerm |-> Array(LbrTerm),
         cNrmTerm |-> Array(cNrmTerm),
         xEffTerm |-> Array(xEffTerm),
         vPterm |-> Array(vPterm),
         vPnvrsTerm |-> Array(vPnvrsTerm)]

\* Lines 425-443: the terminal Solution built from the arrays L.
TerminalSolution(L) ==
    ConsumerLaborSolution(
        BilinearInterp(L.cNrmTerm, L.bNrmGrid, L.TranShkGrid),
        BilinearInterp(L.LbrTerm, L.bNrmGrid, L.TranShkGrid),
        [type |-> "ValueFunc2D",
         func |-> BilinearInterp(L.xEffTerm, L.bNrmGrid, L.TranShkGrid),
         CRRA |-> L.CRRA],
        MargValueFunc2D(BilinearInterp(L.vPnvrsTerm, L.bNrmGrid, L.TranShkGrid), L.CRRA),
        ConstantFunction(Zero))

\* The last list element whichever way time is flowing.
TerminalIndexLast(flow, n) == n

\* The list index (from 1) of the chronologically last period (lines 401-404).
TerminalIndex(flow, n) == IF flow THEN n ELSE 1

----------------------------------------------------------------------------
(* The agent: a LaborIntMargConsumerType and the backward sequence of      *)
(* solveOnePeriod calls made on it.                                        *)

VARIABLES
    time_flow,          \* self.time_flow
    TranShkDstn,        \* self.TranShkDstn: per period, <<probabilities, values>>
    TranShkGrid,        \* self.TranShkGrid: per period, the node grid
    LbrCost,            \* self.LbrCost: per period
    WageRte,            \* self.WageRte: per period
    parms,              \* the other attributes handed to the solver
    solution_terminal,  \* self.solution_terminal, None until it is built
    terminal,           \* the arrays of the last updateSolutionTerminal call
    solution,           \* what each solveOnePeriod call returned, latest first
    call,               \* the last solveConsLaborIntMarg call: result, args, locals
    exited              \* the program ended (sys.exit or an exception)

vars == <<time_flow, TranShkDstn, TranShkGrid, LbrCost, WageRte, parms,
          solution_terminal, terminal, solution, call, exited>>

\* Bounds of the model.
MaxTCycle == 2

\* LaborIntMargConsumerType.__init__(cycles = 1, time_flow = True, ...)
cycles == 1

T_cycle == Len(TranShkDstn)

\* The parameter values the model draws from.  The labor cost is 1, valid
\* CRRA is 1, and wage * shock and the asset grid are squares: the values for
\* which every power the two solvers take is an exact rational.
Grid0 == <<Zero, One, Num(4)>>

Grid1 == <<One, Num(4)>>

\* Misconfigured node grids: a negative node, and a zero node that is not
\* the first one.
GridNeg == <<Num(-1), Zero, One>>

GridZeroLast == <<One, Zero>>

TranShkGridSet == {Grid0, Grid1, GridNeg, GridZeroLast}

TranShkPrbsOf(grid) ==
    IF Len(grid) = 2 THEN <<Rat(1, 2), Rat(1, 2)>>
    ELSE <<Rat(1, 4), Rat(1, 2), Rat(1, 4)>>

WageRteSet == {One, Num(4)}

CRRASet == {Rat(-1, 2), Rat(1, 2), One}

aXtraGridSet == {<<One, Num(4)>>, <<One, Num(4), Num(16)>>}

PermShkDstnSet == {<< <<One>>, <<One>> >>,
                   << <<Rat(1, 2), Rat(1, 2)>>, <<One, Num(2)>> >>}

BoroCnstArtSet == {None, Zero}

ParmsSet ==
    [CRRA : CRRASet, Rfree : {One}, DiscFac : {One}, LivPrb : {One},
     PermGroFac : {One}, BoroCnstArt : BoroCnstArtSet, vFuncBool : BOOLEAN,
     CubicBool : BOOLEAN, aXtraGrid : aXtraGridSet, PermShkDstn : PermShkDstnSet]

Lists(S) == UNION {[1..n -> S] : n \in 1..MaxTCycle}

\* A parameter set the solver accepts.
Accepted(p) ==
    p.CRRA = One /\ p.BoroCnstArt = None /\ ~p.vFuncBool /\ ~p.CubicBool

Init ==
    /\ time_flow = TRUE
    /\ TranShkGrid \in Lists(TranShkGridSet)
    /\ TranShkDstn = [t \in DOMAIN TranShkGrid |->
                        <<TranShkPrbsOf(TranShkGrid[t]), TranShkGrid[t]>>]
    /\ WageRte \in [DOMAIN TranShkGrid -> WageRteSet]
    /\ LbrCost = [t \in DOMAIN TranShkGrid |-> One]
    /\ parms \in ParmsSet
    /\ Accepted(parms) =>
          /\ Len(TranShkGrid) = 1
          /\ Len(parms.PermShkDstn[1]) > 1 => Range(WageRte) = {One}
    /\ ~Accepted(parms) =>
          /\ parms.aXtraGrid = <<One, Num(4)>>
          /\ parms.PermShkDstn = << <<One>>, <<One>> >>
          /\ Len(TranShkGrid) > 1 =>
                /\ Range(TranShkGrid) \subseteq {Grid0, Grid1}
                /\ Range(WageRte) = {One}
    /\ solution_terminal = None
    /\ terminal = None
    /\ solution = <<>>
    /\ call = None
    /\ exited = FALSE

\* updateSolutionTerminal(self)
updateSolutionTerminal ==
    /\ ~exited
    /\ \E t \in {TerminalIndex(time_flow, T_cycle)} :
       \E r \in {TerminalArrays(TranShkGrid[t], LbrCost[t], WageRte[t],
                                parms.aXtraGrid, parms.CRRA)} :
          /\ terminal' = r
          /\ solution_terminal' = TerminalSolution(r)
    /\ UNCHANGED <<time_flow, TranShkDstn, TranShkGrid, LbrCost, WageRte, parms,
                   solution, call, exited>>

\* The list index (from 1) of the period solved after n periods: the periods
\* are solved from the last to the first.
PeriodIndex(flow, T, n) == IF flow THEN T - (n % T) ELSE (n % T) + 1

\* The arguments of the next solveOnePeriod call.
SolverArgs ==
    LET t == PeriodIndex(time_flow, T_cycle, Len(solution))
    IN  [solution_next |-> IF solution = <<>> THEN solution_terminal
                           ELSE Head(solution),
         PermShkDstn |-> parms.PermShkDstn,
         TranShkDstn |-> TranShkDstn[t],
         LivPrb |-> parms.LivPrb,
         DiscFac |-> parms.DiscFac,
         CRRA |-> parms.CRRA,
         Rfree |-> parms.Rfree,
         PermGroFac |-> parms.PermGroFac,
         BoroCnstArt |-> parms.BoroCnstArt,
         aXtraGrid |-> parms.aXtraGrid,
         TranShkGrid |-> TranShkGrid[t],
         vFuncBool |-> parms.vFuncBool,
         CubicBool |-> parms.CubicBool,
         WageRte |-> WageRte[t],
         LbrCost |-> LbrCost[t]]

\* One call self.solveOnePeriod(solution_next, ...) = solveConsLaborIntMarg(...)
solveOnePeriod ==
    /\ ~exited
    /\ solution_terminal # None
    /\ Len(solution) < cycles * T_cycle
    /\ \E r \in {solveConsLaborIntMarg(SolverArgs)} :
          /\ call' = [x \in DOMAIN r \ {"solution"} |-> r[x]]
          /\ exited' = (r.result \in {"exit", "error"})
          /\ solution' = IF r.result = "solution" THEN <<r.solution>> \o solution
                         ELSE IF r.result = "None" THEN <<None>> \o solution
                         ELSE solution
    /\ UNCHANGED <<time_flow, TranShkDstn, TranShkGrid, LbrCost, WageRte, parms,
                   solution_terminal, terminal>>

Next == updateSolutionTerminal \/ solveOnePeriod

Spec == Init /\ [][Next]_vars

----------------------------------------------------------------------------
(* The direction of time: the time-varying attributes of the agent are     *)
(* lists with one entry per period, held in the order time is flowing.     *)

\* list.reverse()
Reverse(s) == [i \in 1..Len(s) |-> s[Len(s) + 1 - i]]

\* The time-varying attributes of the agent and the direction of time.
TimeVarying ==
    [time_flow |-> time_flow, TranShkDstn |-> TranShkDstn,
     TranShkGrid |-> TranShkGrid, LbrCost |-> LbrCost, WageRte |-> WageRte]

\* AgentType.timeFlip: every time-varying list reversed, the direction too.
timeFlip(S) ==
    [time_flow |-> ~S.time_flow, TranShkDstn |-> Reverse(S.TranShkDstn),
     TranShkGrid |-> Reverse(S.TranShkGrid), LbrCost |-> Reverse(S.LbrCost),
     WageRte |-> Reverse(S.WageRte)]

\* AgentType.timeFwd and AgentType.timeRev applied to the attributes S.
timeFwdOf(S) == IF ~S.time_flow THEN timeFlip(S) ELSE S

timeRevOf(S) == IF S.time_flow THEN timeFlip(S) ELSE S

\* The grid rebuilt with time left flowing forward whatever it was.
updateTranShkGridForward(S) ==
    [timeFwdOf(S) EXCEPT !.TranShkGrid =
        [t \in 1..T_cycle |-> timeFwdOf(S).TranShkDstn[t][2]]]

\* updateTranShkGrid applied to the attributes S (lines 375-385).
updateTranShkGridOf(S) ==
    LET time_orig == S.time_flow
        fwd == timeFwdOf(S)
        built == [fwd EXCEPT !.TranShkGrid =
                    [t \in 1..T_cycle |-> fwd.TranShkDstn[t][2]]]
    IN  IF ~time_orig THEN timeRevOf(built) ELSE built

\* IndShockConsumerType.updateIncomeProcess applied to the attributes S: the
\* new distributions Dstn, given in forward order, replace TranShkDstn.
updateIncomeProcessOf(S, Dstn) ==
    LET original_time == S.time_flow
        built == [timeFwdOf(S) EXCEPT !.TranShkDstn = Dstn]
    IN  IF ~original_time THEN timeRevOf(built) ELSE built

\* The attributes S stored in the agent.
SetTimeVarying(S) ==
    /\ time_flow' = S.time_flow
    /\ TranShkDstn' = S.TranShkDstn
    /\ TranShkGrid' = S.TranShkGrid
    /\ LbrCost' = S.LbrCost
    /\ WageRte' = S.WageRte

\* The values the time orientation is exercised with: per period one of two
\* node grids of different sizes and one of two wages, each wage with a
\* labor cost of its own.
TimeGridSet == {Grid0, Grid1}

TimeDstnSet == {<<TranShkPrbsOf(g), g>> : g \in TimeGridSet}

LbrCostWith(wage) == IF wage = One THEN One ELSE Num(2)

TimeParms ==
    [CRRA |-> One, Rfree |-> One, DiscFac |-> One, LivPrb |-> One,
     PermGroFac |-> One, BoroCnstArt |-> None, vFuncBool |-> FALSE,
     CubicBool |-> FALSE, aXtraGrid |-> <<One, Num(4)>>,
     PermShkDstn |-> << <<One>>, <<One>> >>]

\* LaborIntMargConsumerType.__init__(time_flow = f, ...): the lists as given,
\* then update(), whose last step builds TranShkGrid.
InitTime ==
    /\ \E f \in BOOLEAN :
       \E D \in Lists(TimeDstnSet) :
       \E W \in [DOMAIN D -> WageRteSet] :
       \E C \in {[t \in DOMAIN D |-> LbrCostWith(W[t])]} :
       \E S \in {[time_flow |-> f, TranShkDstn |-> D, TranShkGrid |-> <<>>,
                  LbrCost |-> C, WageRte |-> W]} :
          /\ TranShkDstn = D
          /\ time_flow = updateTranShkGridOf(S).time_flow
          /\ TranShkGrid = updateTranShkGridOf(S).TranShkGrid
          /\ LbrCost = updateTranShkGridOf(S).LbrCost
          /\ WageRte = updateTranShkGridOf(S).WageRte
    /\ parms = TimeParms
    /\ solution_terminal = None
    /\ terminal = None
    /\ solution = <<>>
    /\ call = None
    /\ exited = FALSE

\* AgentType.timeFwd(self)
timeFwd ==
    /\ SetTimeVarying(timeFwdOf(TimeVarying))
    /\ UNCHANGED <<parms, solution_terminal, terminal, solution, call, exited>>

\* AgentType.timeRev(self)
timeRev ==
    /\ SetTimeVarying(timeRevOf(TimeVarying))
    /\ UNCHANGED <<parms, solution_terminal, terminal, solution, call, exited>>

\* IndShockConsumerType.updateIncomeProcess(self), the first step of update:
\* new shock distributions, one per period.
updateIncomeProcess ==
    /\ \E Dstn \in [1..T_cycle -> TimeDstnSet] :
          SetTimeVarying(updateIncomeProcessOf(TimeVarying, Dstn))
    /\ UNCHANGED <<parms, solution_terminal, terminal, solution, call, exited>>

\* updateTranShkGrid(self), the last step of update
updateTranShkGrid ==
    /\ SetTimeVarying(updateTranShkGridOf(TimeVarying))
    /\ UNCHANGED <<parms, solution_terminal, terminal, solution, call, exited>>

NextTime ==
    \/ timeFwd
    \/ timeRev
    \/ updateIncomeProcess
    \/ updateTranShkGrid
    \/ updateSolutionTerminal

SpecTime == InitTime /\ [][NextTime]_vars

-----------------------------------------------------------------------------
\* The claims of the specification, each with a state in which its case
\* happens.

\* alpha / (1 + alpha), the bound CRRA has to exceed.
CRRABound(a) == Div(a.LbrCost, Add(One, a.LbrCost))

\* TRUE iff no period has a Solution in the list the driver builds.
NoPeriodSolved == \A k \in DOMAIN solution : ~IsSolution(solution[k])

\* C1: whenever solveConsLaborIntMarg is called with CRRA <= LbrCost/(1+LbrCost),
\* equality included and whatever the other arguments are, the call aborts
\* (sys.exit) before any local array is computed from the next period's
\* Solution or the grids, and no Solution is constructed for the period.
C1_RefusesLowCRRA ==
    (call # None /\ Leq(call.args.CRRA, CRRABound(call.args)))
        => /\ call.result = "exit"
           /\ exited
           /\ "locals" \notin DOMAIN call
           /\ NoPeriodSolved

\* A call with CRRA exactly alpha/(1+alpha), together with a borrowing
\* constraint and a requested value function, has aborted.
C1_Witness ==
    /\ call # None
    /\ call.args.CRRA = CRRABound(call.args)
    /\ call.args.BoroCnstArt # None
    /\ call.args.vFuncBool
    /\ exited

\* C2: with CRRA > LbrCost/(1+LbrCost), a call with BoroCnstArt not None, or
\* vFuncBool, or CubicBool, in any combination, returns None before any local
\* array is computed, and no period of the cycle gets a Solution.
C2_RejectsUnsupported ==
    (/\ call # None
     /\ Gt(call.args.CRRA, CRRABound(call.args))
     /\ \/ call.args.BoroCnstArt # None
        \/ call.args.vFuncBool
        \/ call.args.CubicBool)
        => /\ call.result = "None"
           /\ ~exited
           /\ "locals" \notin DOMAIN call
           /\ NoPeriodSolved

\* Cubic interpolation alone is requested and both periods of a two-period
\* cycle have been refused, the second from the None the first one returned.
C2_Witness ==
    /\ call # None
    /\ Gt(call.args.CRRA, CRRABound(call.args))
    /\ call.args.CubicBool /\ ~call.args.vFuncBool
    /\ call.args.BoroCnstArt = None
    /\ call.args.solution_next = None
    /\ solution = <<None, None>>

\* A parameter set of the supported model: accepted by the solver, with
\* transitory-shock nodes that are not negative and strictly increasing.
ValidParms ==
    /\ Accepted(parms)
    /\ \A t \in DOMAIN TranShkGrid :
          /\ Leq(Zero, TranShkGrid[t][1])
          /\ \A j \in 1..(Len(TranShkGrid[t]) - 1) :
                Lt(TranShkGrid[t][j], TranShkGrid[t][j + 1])

\* The points halfway between the consecutive entries of xs.
Midpoints(xs) ==
    {Div(Add(xs[i], xs[i + 1]), Num(2)) : i \in 1..(Len(xs) - 1)}

\* A point beyond the last entry of xs, by the length of the grid.
Beyond(xs) == Add(xs[Len(xs)], Sub(xs[Len(xs)], xs[1]))

\* The balances a function of a Solution is evaluated at, given the balances
\* xs it was constructed from: the gridpoints, points between them and a
\* point beyond the last one.
QueryPoints(xs) == Range(xs) \cup Midpoints(xs) \cup {Beyond(xs)}

\* labor in [0, 1] and consumption >= 0 for Solution s at (b, theta).
InRange(s, b, theta) ==
    /\ Leq(Zero, Eval2D(s.LbrFunc, b, theta))
    /\ Leq(Eval2D(s.LbrFunc, b, theta), One)
    /\ Leq(Zero, Eval2D(s.cFunc, b, theta))

\* InRange at every point of B above the minimum balance of each node.
InRangeOver(s, thetas, B(_)) ==
    \A j \in DOMAIN thetas :
        \A b \in B(j) :
            Gt(b, Eval1D(s.bNrmMin, thetas[j])) => InRange(s, b, thetas[j])

\* The Solution the last solveOnePeriod call returned, when it returned one.
Solved == call # None /\ call.result = "solution"

\* C3: for every valid parameter set, the Solution of updateSolutionTerminal
\* and the Solution of solveConsLaborIntMarg have labor in [0, 1] and
\* consumption >= 0 at every balance above the node's minimum balance: at
\* the constructed gridpoints, between them and beyond the last one.
C3_LaborConsumptionInRange ==
    ValidParms =>
        /\ solution_terminal # None =>
              InRangeOver(solution_terminal, terminal.TranShkGrid,
                          LAMBDA j : QueryPoints(terminal.bNrmGrid))
        /\ Solved =>
              InRangeOver(Head(solution), call.args.TranShkGrid,
                          LAMBDA j : QueryPoints(Col(call.locals.bNowArray, j)))

\* The end-of-period asset level of row i of the arrays handed to the
\* interpolants: 0 for the prepended row, then the entries of aXtraGrid.
RowAssets(a, i) == IF i = 1 THEN Zero ELSE a.aXtraGrid[i - 1]

\* C4: in solveConsLaborIntMarg, b = a - wage*theta + c + wage*theta*leisure
\* holds at every gridpoint of the arrays handed to the interpolants, for
\* every node theta: at the rows built from aXtraGrid and at the prepended
\* row, where a = 0, with the consumption and leisure stored in that row.
C4_BudgetIdentity ==
    (Solved /\ ValidParms) =>
        \A i \in DOMAIN call.locals.bNowArray :
            \A j \in DOMAIN call.args.TranShkGrid :
                call.locals.bNowArray[i][j] =
                    Add(Add(Sub(RowAssets(call.args, i),
                                Mul(call.args.WageRte, call.args.TranShkGrid[j])),
                            call.locals.cNowArray[i][j]),
                        Mul(Mul(call.args.WageRte, call.args.TranShkGrid[j]),
                            Sub(One, call.locals.LbrNowArray[i][j])))

\* The corner values at asset row i: leisure 1 and the consumption that is
\* the inverse marginal utility of the end-of-period marginal value.
IsCorner(i, j) ==
    /\ call.locals.LsrNow[i][j] = One
    /\ call.locals.cNrmNow[i][j] =
          CRRAutilityP_inv(call.locals.EndOfPrdvP[i], call.args.CRRA)

\* The values of the first-order condition at (i, j), unchanged.
IsInterior(i, j) ==
    /\ call.locals.LsrNow[i][j] = call.locals.LsrFOC[i][j]
    /\ call.locals.cNrmNow[i][j] = call.locals.cNrmFOC[i][j]

\* C5: in solveConsLaborIntMarg, at every gridpoint where the leisure of the
\* first-order condition exceeds 1 the stored leisure is 1 and the stored
\* consumption is uPinv of the end-of-period marginal value at the same a; at
\* every gridpoint where it is <= 1, outside a column whose theta is 0, the
\* values of the first-order condition are kept.
C5_Clamp ==
    Solved =>
        \A i \in DOMAIN call.args.aXtraGrid :
            \A j \in DOMAIN call.args.TranShkGrid :
                /\ Gt(call.locals.LsrFOC[i][j], One) => IsCorner(i, j)
                /\ (/\ Leq(call.locals.LsrFOC[i][j], One)
                    /\ call.args.TranShkGrid[j] # Zero) => IsInterior(i, j)

\* C6: in updateSolutionTerminal, at every balance b of the grid (0 followed
\* by aXtraGrid) and every node theta, leisure is
\* min((alpha/(1+alpha)) * (b/(wage*theta) + 1), 1), labor is 1 - leisure and
\* consumption is b + labor*wage*theta; only at theta = 0, b = 0 leisure is 1
\* and labor is 0 instead.
C6_TerminalFormula ==
    (solution_terminal # None /\ ValidParms) =>
        \A i \in DOMAIN terminal.bNrmGrid :
            \A j \in DOMAIN terminal.TranShkGrid :
                /\ terminal.LsrTerm[i][j] =
                      IF terminal.bNrmGrid[i] = Zero /\ terminal.TranShkGrid[j] = Zero
                      THEN One
                      ELSE Minimum(Mul(CRRABound(terminal),
                                       Add(Div(terminal.bNrmGrid[i],
                                               Mul(terminal.WageRte,
                                                   terminal.TranShkGrid[j])),
                                           One)),
                                   One)
                /\ terminal.LbrTerm[i][j] = Sub(One, terminal.LsrTerm[i][j])
                /\ terminal.cNrmTerm[i][j] =
                      Add(terminal.bNrmGrid[i],
                          Mul(Mul(terminal.LbrTerm[i][j], terminal.WageRte),
                              terminal.TranShkGrid[j]))

\* The base E[a] * scale(theta) the effective-consumption step raises to a
\* fractional power.
EffConsBase(i, j) ==
    Mul(call.locals.EndOfPrdvP[i], call.locals.TranShkScaleFac[j])

\* Gridpoint (i, j) of a call is degenerate: outside a first column whose
\* theta is 0 (the column handled by closed form), a zero node or a base of
\* the effective-consumption step that is not positive.
Degenerate(i, j) ==
    /\ ~(j = 1 /\ call.args.TranShkGrid[j] = Zero)
    /\ \/ call.args.TranShkGrid[j] = Zero
       \/ Leq(EffConsBase(i, j), Zero)

\* The consumption or the labor handed to the interpolants for asset row i
\* and node j is not a finite number.
Marked(i, j) ==
    \/ ~IsFinite(call.locals.cNowArray[i + 1][j])
    \/ ~IsFinite(call.locals.LbrNowArray[i + 1][j])

\* C7: in solveConsLaborIntMarg a numerical degeneracy is surfaced: when the
\* node grid holds a zero outside the first column, or the base of the
\* effective-consumption power is not positive, the affected gridpoints of
\* the returned Solution carry an invalid marker; they do not hold the
\* finite corner values leisure = 1, c = uPinv of the end-of-period value.
C7_DegeneracySurfaced ==
    Solved =>
        \A i \in DOMAIN call.args.aXtraGrid :
            \A j \in DOMAIN call.args.TranShkGrid :
                Degenerate(i, j) => Marked(i, j)

\* C10: in solveConsLaborIntMarg, a node gets the closed-form values (leisure
\* 1 and c = uPinv of the end-of-period marginal value at every asset level)
\* exactly when its theta is 0; a node with theta # 0, whatever its position,
\* gets the values of the general formulas, changed only by the clamp of a
\* leisure above 1.
C10_ClosedFormIffZeroShock ==
    Solved =>
        \A i \in DOMAIN call.args.aXtraGrid :
            \A j \in DOMAIN call.args.TranShkGrid :
                IF call.args.TranShkGrid[j] = Zero THEN IsCorner(i, j)
                ELSE IF Gt(call.locals.LsrFOC[i][j], One) THEN IsCorner(i, j)
                ELSE IsInterior(i, j)

\* Consumption and marginal value of the Solution the last call returned.
cNow(b, theta) == Eval2D(Head(solution).cFunc, b, theta)

vPNow(b, theta) == Eval2D(Head(solution).vPfunc, b, theta)

\* The pairs b1 <= b2 of grid balances of node j, both at or above the
\* minimum balance of the node.
BalancePairs(j) ==
    {p \in Range(Col(call.locals.bNowArray, j))
            \X Range(Col(call.locals.bNowArray, j)) :
        /\ Leq(p[1], p[2])
        /\ Leq(Eval1D(Head(solution).bNrmMin, call.args.TranShkGrid[j]), p[1])}

\* C8 as stated: for every Solution of solveConsLaborIntMarg and every node
\* theta, consumption and marginal value are both non-decreasing in the
\* balance b over the grid balances.
C8_BothNonDecreasing ==
    (Solved /\ ValidParms) =>
        \A j \in DOMAIN call.args.TranShkGrid :
            \A p \in BalancePairs(j) :
                /\ Leq(cNow(p[1], call.args.TranShkGrid[j]),
                       cNow(p[2], call.args.TranShkGrid[j]))
                /\ Leq(vPNow(p[1], call.args.TranShkGrid[j]),
                       vPNow(p[2], call.args.TranShkGrid[j]))

\* C8, amended: for every Solution of solveConsLaborIntMarg and every node
\* theta, over the grid balances consumption is non-decreasing in b and
\* marginal value is non-increasing in b.
C8_MonotoneInBalances ==
    (Solved /\ ValidParms) =>
        \A j \in DOMAIN call.args.TranShkGrid :
            \A p \in BalancePairs(j) :
                /\ Leq(cNow(p[1], call.args.TranShkGrid[j]),
                       cNow(p[2], call.args.TranShkGrid[j]))
                /\ Leq(vPNow(p[2], call.args.TranShkGrid[j]),
                       vPNow(p[1], call.args.TranShkGrid[j]))

\* A Solution with two grid balances of a node between which consumption
\* rises and marginal value, finite at both, falls.
C8_Witness ==
    /\ Solved /\ ValidParms
    /\ \E j \in DOMAIN call.args.TranShkGrid :
          \E p \in BalancePairs(j) :
              /\ Lt(cNow(p[1], call.args.TranShkGrid[j]),
                    cNow(p[2], call.args.TranShkGrid[j]))
              /\ Lt(vPNow(p[2], call.args.TranShkGrid[j]),
                    vPNow(p[1], call.args.TranShkGrid[j]))
              /\ IsFinite(vPNow(p[1], call.args.TranShkGrid[j]))

\* The forward transform applied to the pseudo-inverse marginal-value
\* function of Solution s at (b, theta).
Reconstructed(s, b, theta) ==
    CRRAutilityP(Eval2D(s.vPfunc.cFunc, b, theta), s.vPfunc.CRRA)

\* C9: for the Solution of updateSolutionTerminal and of solveConsLaborIntMarg
\* the forward CRRA marginal-utility transform of the pseudo-inverse
\* marginal-value function is the marginal-value function at every
\* gridpoint: the terminal marginal value there, and in the solver the
\* end-of-period marginal value at the asset level the gridpoint is built
\* from, for every node.
C9_RoundTrip ==
    ValidParms =>
        /\ solution_terminal # None =>
              \A i \in DOMAIN terminal.bNrmGrid :
                  \A j \in DOMAIN terminal.TranShkGrid :
                      /\ Reconstructed(solution_terminal, terminal.bNrmGrid[i],
                                       terminal.TranShkGrid[j])
                            = Eval2D(solution_terminal.vPfunc,
                                     terminal.bNrmGrid[i], terminal.TranShkGrid[j])
                      /\ Reconstructed(solution_terminal, terminal.bNrmGrid[i],
                                       terminal.TranShkGrid[j])
                            = terminal.vPterm[i][j]
        /\ Solved =>
              \A i \in DOMAIN call.args.aXtraGrid :
                  \A j \in DOMAIN call.args.TranShkGrid :
                      /\ Reconstructed(Head(solution),
                                       call.locals.bNowArray[i + 1][j],
                                       call.args.TranShkGrid[j])
                            = vPNow(call.locals.bNowArray[i + 1][j],
                                    call.args.TranShkGrid[j])
                      /\ Reconstructed(Head(solution),
                                       call.locals.bNowArray[i + 1][j],
                                       call.args.TranShkGrid[j])
                            = call.locals.EndOfPrdvP[i]

\* A solve under two permanent-shock outcomes whose end-of-period marginal
\* values differ from 1 and from each other, after a terminal solution with
\* an infinite marginal value at b = 0.
C9_Witness ==
    /\ Solved /\ ValidParms
    /\ Len(call.args.PermShkDstn[1]) = 2
    /\ terminal.vPterm[1][1] = Inf
    /\ \A i \in DOMAIN call.args.aXtraGrid :
          /\ IsFinite(call.locals.EndOfPrdvP[i])
          /\ call.locals.EndOfPrdvP[i] # One
    /\ call.locals.EndOfPrdvP[1] # call.locals.EndOfPrdvP[2]

\* The 1D interpolants of node j in the Solution the last call returned:
\* consumption, labor and pseudo-inverse marginal value.
NodeInterpolants(j) ==
    [c |-> Head(solution).cFunc.func.xInterpolators[j],
     Lbr |-> Head(solution).LbrFunc.func.xInterpolators[j],
     vPnvrs |-> Head(solution).vPfunc.cFunc.func.xInterpolators[j]]

\* The minimum balance of Solution s at shock theta.
MinBalance(s, theta) == Eval1D(s.bNrmMin, theta)

\* C11: in the Solution of solveConsLaborIntMarg, for every node theta_j the
\* minimum-balance function returns -wage * theta_j; the balance grid of each
\* of the node's three 1D interpolants is the node's column of balances minus
\* that minimum, has one more point than aXtraGrid and starts at exactly 0,
\* where consumption and pseudo-inverse marginal value are 0 (as stored, and
\* for a valid parameter set as the Solution's functions return them at the
\* minimum balance); in the terminal Solution the minimum balance is 0 at
\* every theta.
C11_MinBalanceShiftedGrid ==
    /\ Solved =>
          \A j \in DOMAIN call.args.TranShkGrid :
              /\ MinBalance(Head(solution), call.args.TranShkGrid[j])
                    = Mul(Neg(call.args.WageRte), call.args.TranShkGrid[j])
              /\ \A k \in DOMAIN NodeInterpolants(j) :
                    /\ Len(NodeInterpolants(j)[k].x_list)
                          = Len(call.args.aXtraGrid) + 1
                    /\ NodeInterpolants(j)[k].x_list[1] = Zero
                    /\ \A i \in DOMAIN NodeInterpolants(j)[k].x_list :
                          NodeInterpolants(j)[k].x_list[i]
                             = Sub(call.locals.bNowArray[i][j],
                                   MinBalance(Head(solution),
                                              call.args.TranShkGrid[j]))
              /\ NodeInterpolants(j).c.y_list[1] = Zero
              /\ NodeInterpolants(j).vPnvrs.y_list[1] = Zero
              /\ ValidParms =>
                    /\ cNow(MinBalance(Head(solution), call.args.TranShkGrid[j]),
                            call.args.TranShkGrid[j]) = Zero
                    /\ Eval2D(Head(solution).vPfunc.cFunc,
                              MinBalance(Head(solution), call.args.TranShkGrid[j]),
                              call.args.TranShkGrid[j]) = Zero
    /\ solution_terminal # None =>
          \A theta \in QueryPoints(terminal.TranShkGrid) \cup {Zero} :
              MinBalance(solution_terminal, theta) = Zero

\* A Solution over three asset points with a node whose minimum balance is
\* negative, so that the node's balances and its shifted grid differ.
C11_Witness ==
    /\ Solved /\ ValidParms
    /\ solution_terminal # None
    /\ Len(call.args.aXtraGrid) = 3
    /\ \E j \in DOMAIN call.args.TranShkGrid :
          /\ Lt(MinBalance(Head(solution), call.args.TranShkGrid[j]), Zero)
          /\ NodeInterpolants(j).c.x_list[2] # call.locals.bNowArray[2][j]
          /\ Len(NodeInterpolants(j).c.x_list) = 4

\* Solution s with every function but the marginal-value function replaced
\* by another one: consumption and labor exchanged, no value function, a
\* minimum balance of 1.
OtherFunctionsReplaced(s) ==
    IF IsSolution(s)
    THEN ConsumerLaborSolution(s.LbrFunc, s.cFunc, None, s.vPfunc,
                               ConstantFunction(One))
    ELSE s

\* What a call of solveConsLaborIntMarg produced: its result, local arrays
\* and Solution.
Outcome(r) == [x \in DOMAIN r \ {"args"} |-> r[x]]

\* The last call produces the same outcome when every function of the next
\* period's Solution but vPfunc is another function.
ReadsOnlyMargValue ==
    call # None =>
        Outcome(solveConsLaborIntMarg(call.args))
            = Outcome(solveConsLaborIntMarg(
                [call.args EXCEPT !.solution_next = OtherFunctionsReplaced(@)]))

\* A step that keeps the inputs of the call and every Solution constructed
\* before it: the call ran on the agent's attributes, they and the terminal
\* Solution are the same after it, and the Solutions returned earlier are
\* still in the list, behind what this call returned.
InputsKept ==
    /\ call'.args = SolverArgs
    /\ UNCHANGED <<parms, TranShkDstn, TranShkGrid, WageRte, LbrCost,
                   solution_terminal, terminal, time_flow>>
    /\ Len(solution') >= Len(solution)
    /\ \A k \in DOMAIN solution :
          solution'[k + Len(solution') - Len(solution)] = solution[k]
    /\ call'.args.solution_next
          = IF solution = <<>> THEN solution_terminal' ELSE solution'[2]

\* A step in which solveConsLaborIntMarg was called: it returned (a Solution
\* or None joined the list) or it ended the program.
SolverCalled == solution' # solution \/ exited' # exited

\* C12: a call of solveConsLaborIntMarg, accepted or rejected, leaves next
\* period's Solution and every input (aXtraGrid, TranShkGrid, the shock
\* distributions) as they were and keeps the Solutions constructed before it,
\* and its outcome depends on next period's Solution through the
\* marginal-value function only.
C12_SolverFrame ==
    /\ []ReadsOnlyMargValue
    /\ [][SolverCalled => InputsKept]_vars

\* A Solution returned by a call on the terminal Solution, which is still
\* what updateSolutionTerminal built and whose other functions differ from
\* their replacements.
C12_Witness ==
    /\ Solved
    /\ call.args.solution_next = solution_terminal
    /\ solution_terminal = TerminalSolution(terminal)
    /\ OtherFunctionsReplaced(solution_terminal) # solution_terminal
    /\ call.args.aXtraGrid = parms.aXtraGrid
    /\ Len(solution) = 1

\* A time-varying list in chronological order, whichever way it is held.
Chronological(list) == IF time_flow THEN list ELSE Reverse(list)

\* The entry of the chronologically last period.
LastPeriod(list) == Chronological(list)[T_cycle]

\* A step in which updateSolutionTerminal built a terminal Solution.
TerminalBuilt == terminal' # terminal \/ solution_terminal' # solution_terminal

\* C13: whichever way time is flowing, updateSolutionTerminal builds the
\* terminal Solution from the TranShkGrid, LbrCost and WageRte of the
\* chronologically last period, which is the last list element when time
\* flows forward and the first when it flows backward, and it changes
\* neither the direction of time nor the per-period lists.
C13_TerminalFromLastPeriod ==
    [][TerminalBuilt =>
        /\ terminal'.TranShkGrid = LastPeriod(TranShkGrid)
        /\ terminal'.LbrCost = LastPeriod(LbrCost)
        /\ terminal'.WageRte = LastPeriod(WageRte)
        /\ terminal'.TranShkGrid
              = TranShkGrid[IF time_flow THEN T_cycle ELSE 1]
        /\ terminal'.LbrCost = LbrCost[IF time_flow THEN T_cycle ELSE 1]
        /\ terminal'.WageRte = WageRte[IF time_flow THEN T_cycle ELSE 1]
        /\ solution_terminal'
              = TerminalSolution(TerminalArrays(LastPeriod(TranShkGrid),
                    LastPeriod(LbrCost), LastPeriod(WageRte),
                    parms.aXtraGrid, parms.CRRA))
        /\ UNCHANGED <<time_flow, TranShkDstn, TranShkGrid, LbrCost, WageRte>>
    ]_vars

\* A terminal Solution built while time flows backward over two periods
\* that differ in grid, labor cost and wage: it is the one of the first
\* list element.
C13_Witness ==
    /\ ~time_flow
    /\ T_cycle = 2
    /\ TranShkGrid[1] # TranShkGrid[2]
    /\ LbrCost[1] # LbrCost[2]
    /\ WageRte[1] # WageRte[2]
    /\ terminal # None
    /\ terminal.TranShkGrid = TranShkGrid[1]
    /\ terminal.LbrCost = LbrCost[1]
    /\ terminal.WageRte = WageRte[1]
    /\ solution_terminal = TerminalSolution(terminal)

\* TranShkGrid has one entry per period and each entry is the outcome
\* values of the distribution held at the same index.
GridMatchesDstn ==
    /\ Len(TranShkGrid) = T_cycle
    /\ \A t \in 1..T_cycle : TranShkGrid[t] = TranShkDstn[t][2]

\* C14: a call of updateTranShkGrid leaves time flowing the way it found it
\* and the other per-period lists as they were, and after it TranShkGrid has
\* one entry per period, the outcome values of TranShkDstn at the same
\* index; reversing time afterwards keeps that correspondence.
C14_GridUpdateRestoresTime ==
    [][/\ updateTranShkGrid =>
            /\ time_flow' = time_flow
            /\ GridMatchesDstn'
            /\ UNCHANGED <<TranShkDstn, LbrCost, WageRte>>
       /\ (GridMatchesDstn /\ (timeFwd \/ timeRev)) => GridMatchesDstn'
    ]_vars

\* Time flows backward over two periods with different grids, the grid
\* matches the distributions, and the grid of the last period is no longer
\* the one the terminal Solution was built from: updateTranShkGrid has
\* rebuilt it since, after new distributions were set.
C14_Witness ==
    /\ ~time_flow
    /\ T_cycle = 2
    /\ GridMatchesDstn
    /\ TranShkGrid[1] # TranShkGrid[2]
    /\ terminal # None
    /\ terminal.TranShkGrid # LastPeriod(TranShkGrid)

====
